---------------------------- MODULE Spec2Model ----------------------------
(***************************************************************************)
(* A model of frontend/src/App.js of the Garmin dashboard: the value       *)
(* helpers (toDay, numOrNull, sortAsc), the four normalizers, the range    *)
(* filter and the component's fetch / update / erase handlers.             *)
(*                                                                         *)
(* JavaScript values are records [t, num, den, s]:                         *)
(*   t   the kind of value ("undefined", "null", "number", "NaN",          *)
(*       "Infinity", "-Infinity", "string", "boolean", "array", "object"), *)
(*   num/den  a finite number as the exact rational num/den (den > 0, in   *)
(*       lowest terms); the binary representation error of a double is     *)
(*       not modelled,                                                     *)
(*   s   the UTF-16 code units of a string, or the elements of an array.   *)
(***************************************************************************)
EXTENDS Integers, Sequences, FiniteSets

(* ------------------------------ JS values ------------------------------ *)

JS(t, num, den, s) == [t |-> t, num |-> num, den |-> den, s |-> s]

Undefined == JS("undefined", 0, 1, <<>>)
Null      == JS("null", 0, 1, <<>>)
NaN       == JS("NaN", 0, 1, <<>>)
PosInf    == JS("Infinity", 0, 1, <<>>)
NegInf    == JS("-Infinity", 0, 1, <<>>)
True      == JS("boolean", 1, 1, <<>>)
False     == JS("boolean", 0, 1, <<>>)
Obj       == JS("object", 0, 1, <<>>)
Str(s)    == JS("string", 0, 1, s)
Arr(s)    == JS("array", 0, 1, s)

Abs(n) == IF n < 0 THEN 0 - n ELSE n

RECURSIVE Gcd(_, _)
Gcd(a, b) == IF b = 0 THEN a ELSE Gcd(b, a % b)

\* The finite number n/d (d # 0), in lowest terms with a positive denominator.
Rat(n, d) ==
  LET g  == Gcd(Abs(n), Abs(d))
      sg == IF d < 0 THEN 0 - 1 ELSE 1
  IN  JS("number", (sg * n) \div g, Abs(d) \div g, <<>>)

\* The integer n as a JS number.
Num(n) == Rat(n, 1)

\* typeof v === "number"
IsNumberType(v) == v.t \in {"number", "NaN", "Infinity", "-Infinity"}

\* ToBoolean(v): undefined, null, NaN, 0, "" and false are falsy.
Truthy(v) ==
  CASE v.t \in {"undefined", "null", "NaN"} -> FALSE
    [] v.t = "number"  -> v.num # 0
    [] v.t = "string"  -> Len(v.s) > 0
    [] v.t = "boolean" -> v.num = 1
    [] OTHER -> TRUE

\* v == null (loose equality: null or undefined)
IsNullish(v) == v.t \in {"undefined", "null"}

\* r?.f on a raw record: a missing field reads as undefined.  A row element
\* that is null or undefined reads as undefined for every field, exactly as a
\* mapping that lacks every field does.
Get(r, f) == IF f \in DOMAIN r THEN r[f] ELSE Undefined

(* ---------------------------- JS arithmetic ---------------------------- *)

\* Number.MAX_VALUE, scaled to the model's integer range: a finite result
\* whose magnitude exceeds it overflows to +-Infinity, as IEEE doubles do.
MAX_VALUE == 10 ^ 6

Sign(n) == IF n < 0 THEN 0 - 1 ELSE IF n > 0 THEN 1 ELSE 0

\* The number n/d (d > 0) as the arithmetic produces it: rounded to
\* +-Infinity on overflow.
Finite(n, d) ==
  IF Abs(n) \div d > MAX_VALUE \/ (Abs(n) \div d = MAX_VALUE /\ Abs(n) % d > 0)
    THEN (IF n < 0 THEN NegInf ELSE PosInf)
    ELSE Rat(n, d)

\* Number.isFinite(v)
IsFinite(v) == v.t = "number"

\* a * b, for the operands the code multiplies (a finite, b finite or infinite).
Mul(a, b) ==
  CASE b.t = "NaN" -> NaN
    [] b.t \in {"Infinity", "-Infinity"} ->
         LET sb == IF b.t = "Infinity" THEN 1 ELSE 0 - 1
         IN  IF a.num = 0 THEN NaN
             ELSE IF Sign(a.num) * sb > 0 THEN PosInf ELSE NegInf
    [] OTHER -> Finite(a.num * b.num, a.den * b.den)

\* a / b, for the divisors the code uses (b finite and non-zero).
Div(a, b) ==
  CASE a.t = "NaN" -> NaN
    [] a.t \in {"Infinity", "-Infinity"} ->
         LET sa == IF a.t = "Infinity" THEN 1 ELSE 0 - 1
         IN  IF sa * Sign(b.num) > 0 THEN PosInf ELSE NegInf
    [] OTHER ->
         LET n == a.num * b.den
             d == a.den * b.num
         IN  IF d < 0 THEN Finite(0 - n, 0 - d) ELSE Finite(n, d)

\* a + b, both finite.
Add(a, b) == Finite(a.num * b.den + b.num * a.den, a.den * b.den)

\* a > 0
GtZero(a) ==
  CASE a.t = "number"   -> a.num > 0
    [] a.t = "Infinity" -> TRUE
    [] OTHER -> FALSE

\* +(x).toFixed(1): the nearest number with one decimal, a tie taking the
\* larger magnitude; "Infinity", "-Infinity" and "NaN" print and parse back
\* as themselves.
ToFixed1(x) ==
  IF x.t # "number" THEN x
  ELSE LET a == Abs(x.num)
           m == (20 * a + x.den) \div (2 * x.den)
       IN  Rat(Sign(x.num) * m, 10)

(* ------------------------------- strings ------------------------------- *)

\* Code units: "," is 44, "-" is 45, "." is 46, "0" is 48.

Min(a, b) == IF a < b THEN a ELSE b

\* s.slice(0, n) of a string or an array
Slice(s, n) == SubSeq(s, 1, Min(Len(s), n))

\* a < b on strings: by code units, a proper prefix first.
RECURSIVE StrLess(_, _)
StrLess(a, b) ==
  IF Len(b) = 0 THEN FALSE
  ELSE IF Len(a) = 0 THEN TRUE
  ELSE IF Head(a) # Head(b) THEN Head(a) < Head(b)
  ELSE StrLess(Tail(a), Tail(b))

\* The decimal digits of a natural number.
RECURSIVE Digits(_)
Digits(n) == IF n < 10 THEN <<48 + n>> ELSE Append(Digits(n \div 10), 48 + (n % 10))

\* Two decimal digits, zero-padded.
Pad2(n) == <<48 + (n \div 10), 48 + (n % 10)>>

\* Four decimal digits, zero-padded.
Pad4(n) == Pad2(n \div 100) \o Pad2(n % 100)

\* "[object Object]", "true", "false", "Infinity", "NaN"
StrObject   == <<91, 111, 98, 106, 101, 99, 116, 32, 79, 98, 106, 101, 99, 116, 93>>
StrTrue     == <<116, 114, 117, 101>>
StrFalse    == <<102, 97, 108, 115, 101>>
StrInfinity == <<73, 110, 102, 105, 110, 105, 116, 121>>
StrNaN      == <<78, 97, 78>>

\* Number::toString for an integer or a number with one decimal.
NumberStringOf(v) ==
  LET a    == Abs(v.num)
      sgn  == IF v.num < 0 THEN <<45>> ELSE <<>>
  IN  IF v.den = 1 THEN sgn \o Digits(a)
      ELSE sgn \o Digits((a * (10 \div v.den)) \div 10)
               \o <<46>> \o <<48 + ((a * (10 \div v.den)) % 10)>>

RECURSIVE JoinNumbers(_)
\* Array.prototype.join(",") of an array of small naturals
JoinNumbers(s) ==
  IF Len(s) = 0 THEN <<>>
  ELSE IF Len(s) = 1 THEN Digits(s[1])
  ELSE Digits(s[1]) \o <<44>> \o JoinNumbers(Tail(s))

\* String(v)
StringOf(v) ==
  CASE v.t = "string"    -> v.s
    [] v.t = "number"    -> NumberStringOf(v)
    [] v.t = "Infinity"  -> StrInfinity
    [] v.t = "-Infinity" -> <<45>> \o StrInfinity
    [] v.t = "NaN"       -> StrNaN
    [] v.t = "boolean"   -> IF v.num = 1 THEN StrTrue ELSE StrFalse
    [] v.t = "array"     -> JoinNumbers(v.s)
    [] OTHER             -> StrObject

(* --------------------- helpers / normalization (13-15) ------------------ *)

\* The length of a day key, the 10 of slice(0, 10).
DayLen == 10

\* const toDay = (d) => (d ? (d.slice?.(0, 10) ?? String(d).slice(0, 10)) : "")
\* A string and an array both have a slice method, so an array yields an
\* array; any other truthy value is converted with String().
toDay(d) ==
  IF ~Truthy(d) THEN Str(<<>>)
  ELSE IF d.t = "string" THEN Str(Slice(d.s, DayLen))
  ELSE IF d.t = "array"  THEN Arr(Slice(d.s, DayLen))
  ELSE Str(Slice(StringOf(d), DayLen))

\* const numOrNull = (v) => (typeof v === "number" && Number.isFinite(v) ? v : null)
numOrNull(v) == IF IsNumberType(v) /\ IsFinite(v) THEN v ELSE Null

\* a > b as the comparator of sortAsc evaluates it on two toDay results:
\* both operands are converted to strings and compared by code units.
DayGreater(a, b) == StrLess(StringOf(b), StringOf(a))


\* seq with x placed behind its first i elements.
InsertAt(seq, i, x) == SubSeq(seq, 1, i) \o <<x>> \o SubSeq(seq, i + 1, Len(seq))

\* The places at which the record x can stand in the ascending sequence seq:
\* behind no record of a greater day and before no record of a smaller one.
Inserts(seq, x) ==
  {InsertAt(seq, i, x) : i \in
     {j \in 0..Len(seq) :
        /\ \A k \in 1..j : ~DayGreater(toDay(seq[k].date), toDay(x.date))
        /\ \A k \in (j + 1)..Len(seq) : ~DayGreater(toDay(x.date), toDay(seq[k].date))}}

\* const sortAsc = (arr) => arr.slice().sort((a, b) =>
\*     (toDay(a.date) > toDay(b.date) ? 1 : -1))
\* The comparator never returns 0: for two records of equal day it answers -1
\* in both directions, so it is not a consistent comparator and
\* Array.prototype.sort leaves the order of such records to the engine (V8's
\* run detection reverses a run of equal days; a merge that tests "> 0" keeps
\* it).  sortAsc is therefore the set of results an engine can produce: the
\* orderings of arr in which no record precedes one of a smaller day, built
\* by placing the records one after the other.
RECURSIVE sortAsc(_)
sortAsc(arr) ==
  IF Len(arr) = 0 THEN {<<>>}
  ELSE UNION {Inserts(s, arr[Len(arr)]) : s \in sortAsc(SubSeq(arr, 1, Len(arr) - 1))}

(* ---------------------- endpoint normalizers (18-75) -------------------- *)

\* The callback of normSteps (lines 19-31).
normStepsRow(r) ==
  LET steps == numOrNull(Get(r, "steps"))
      goal  == numOrNull(Get(r, "step_goal"))
      pct   == IF ~IsNullish(steps) /\ Truthy(goal) /\ GtZero(goal)
                 THEN ToFixed1(Div(Mul(Num(100), steps), goal))
                 ELSE Num(0)
  IN  [date |-> toDay(Get(r, "date")),
       steps |-> steps,
       step_goal |-> goal,
       steps_pct_goal |-> pct]

\* The callback of normStress (lines 34-37).
normStressRow(r) ==
  [date |-> toDay(Get(r, "date")),
   stress_avg |-> numOrNull(Get(r, "stress_avg"))]

\* v ?? d
Coalesce(v, d) == IF IsNullish(v) THEN d ELSE v

\* normExerciseRow with total_min taken as the sum of the two separately
\* rounded minute values instead of the rounded sum of the seconds.
normExerciseRow_RoundThenSum(r) ==
  LET ms       == numOrNull(Get(r, "moderate_activity_seconds"))
      vs       == numOrNull(Get(r, "vigorous_activity_seconds"))
      goalS    == numOrNull(Get(r, "intensity_time_goal_seconds"))
      totalS   == Add(Coalesce(ms, Num(0)), Coalesce(vs, Num(0)))
      totalMin == IF IsFinite(totalS)
                    THEN Add(ToFixed1(Div(Coalesce(ms, Num(0)), Num(60))),
                             ToFixed1(Div(Coalesce(vs, Num(0)), Num(60))))
                    ELSE Null
      goalMin  == IF ~IsNullish(goalS) THEN ToFixed1(Div(goalS, Num(60))) ELSE Null
      pct      == IF Truthy(goalMin) /\ GtZero(goalMin) /\ ~IsNullish(totalMin)
                    THEN ToFixed1(Div(Mul(Num(100), totalMin), goalMin))
                    ELSE Num(0)
  IN  [date |-> toDay(Get(r, "date")),
       moderate_min |-> IF ~IsNullish(ms) THEN ToFixed1(Div(ms, Num(60))) ELSE Null,
       vigorous_min |-> IF ~IsNullish(vs) THEN ToFixed1(Div(vs, Num(60))) ELSE Null,
       total_min |-> totalMin,
       exercise_pct_goal |-> pct,
       distance |-> numOrNull(Get(r, "distance")),
       calories_active |-> numOrNull(Get(r, "calories_active")),
       calories_total |-> numOrNull(Get(r, "calories_total"))]

\* normExerciseRow without the "goalMin > 0" test of the percentage.
normExerciseRow_NoPositiveGoal(r) ==
  LET ms       == numOrNull(Get(r, "moderate_activity_seconds"))
      vs       == numOrNull(Get(r, "vigorous_activity_seconds"))
      goalS    == numOrNull(Get(r, "intensity_time_goal_seconds"))
      totalS   == Add(Coalesce(ms, Num(0)), Coalesce(vs, Num(0)))
      totalMin == IF IsFinite(totalS) THEN ToFixed1(Div(totalS, Num(60))) ELSE Null
      goalMin  == IF ~IsNullish(goalS) THEN ToFixed1(Div(goalS, Num(60))) ELSE Null
      pct      == IF Truthy(goalMin) /\ ~IsNullish(totalMin)
                    THEN ToFixed1(Div(Mul(Num(100), totalMin), goalMin))
                    ELSE Num(0)
  IN  [date |-> toDay(Get(r, "date")),
       moderate_min |-> IF ~IsNullish(ms) THEN ToFixed1(Div(ms, Num(60))) ELSE Null,
       vigorous_min |-> IF ~IsNullish(vs) THEN ToFixed1(Div(vs, Num(60))) ELSE Null,
       total_min |-> totalMin,
       exercise_pct_goal |-> pct,
       distance |-> numOrNull(Get(r, "distance")),
       calories_active |-> numOrNull(Get(r, "calories_active")),
       calories_total |-> numOrNull(Get(r, "calories_total"))]

\* The callback of normExercise (lines 40-65).
normExerciseRow(r) ==
  LET ms       == numOrNull(Get(r, "moderate_activity_seconds"))
      vs       == numOrNull(Get(r, "vigorous_activity_seconds"))
      goalS    == numOrNull(Get(r, "intensity_time_goal_seconds"))
      totalS   == Add(Coalesce(ms, Num(0)), Coalesce(vs, Num(0)))
      totalMin == IF IsFinite(totalS) THEN ToFixed1(Div(totalS, Num(60))) ELSE Null
      goalMin  == IF ~IsNullish(goalS) THEN ToFixed1(Div(goalS, Num(60))) ELSE Null
      pct      == IF Truthy(goalMin) /\ GtZero(goalMin) /\ ~IsNullish(totalMin)
                    THEN ToFixed1(Div(Mul(Num(100), totalMin), goalMin))
                    ELSE Num(0)
  IN  [date |-> toDay(Get(r, "date")),
       moderate_min |-> IF ~IsNullish(ms) THEN ToFixed1(Div(ms, Num(60))) ELSE Null,
       vigorous_min |-> IF ~IsNullish(vs) THEN ToFixed1(Div(vs, Num(60))) ELSE Null,
       total_min |-> totalMin,
       exercise_pct_goal |-> pct,
       distance |-> numOrNull(Get(r, "distance")),
       calories_active |-> numOrNull(Get(r, "calories_active")),
       calories_total |-> numOrNull(Get(r, "calories_total"))]

\* The callback of normSleep (lines 68-75).
normSleepRow(r) ==
  [date |-> toDay(Get(r, "date")),
   total_sleep_hours |-> numOrNull(Get(r, "total_sleep_hours")),
   deep_sleep_hours  |-> numOrNull(Get(r, "deep_sleep_hours")),
   light_sleep_hours |-> numOrNull(Get(r, "light_sleep_hours")),
   rem_sleep_hours   |-> numOrNull(Get(r, "rem_sleep_hours")),
   awake_hours       |-> numOrNull(Get(r, "awake_hours"))]

\* The value handed to a normalizer: an array of raw records, or anything
\* else.  t is its kind, truthy its ToBoolean, items the elements of an array.
RowsValue(t, truthy, items) == [t |-> t, truthy |-> truthy, items |-> items]

\* What a call produces: a returned sequence, or a thrown TypeError.
Returned(seq) == [threw |-> FALSE, value |-> seq]
Thrown        == [threw |-> TRUE, value |-> <<>>]

\* The mapping without the sort: the mapped records in the order of rows.
MapAndSort_MapOnly(rows, mapped) ==
  IF ~rows.truthy THEN {Returned(<<>>)}
  ELSE IF rows.t # "array" THEN {Thrown}
  ELSE {Returned(mapped)}

\* sortAsc((rows || []).map(...)), given rows and the mapped elements of an
\* array: a falsy rows is replaced by [], an array is mapped and sorted, and
\* any other truthy value has no map method, so the call throws a TypeError.
\* The result is a set because sortAsc is one.
MapAndSort(rows, mapped) ==
  IF ~rows.truthy THEN {Returned(<<>>)}
  ELSE IF rows.t # "array" THEN {Thrown}
  ELSE {Returned(s) : s \in sortAsc(mapped)}

normSteps(rows) ==
  MapAndSort(rows, [i \in 1..Len(rows.items) |-> normStepsRow(rows.items[i])])

normStress(rows) ==
  MapAndSort(rows, [i \in 1..Len(rows.items) |-> normStressRow(rows.items[i])])

normExercise(rows) ==
  MapAndSort(rows, [i \in 1..Len(rows.items) |-> normExerciseRow(rows.items[i])])

normSleep(rows) ==
  MapAndSort(rows, [i \in 1..Len(rows.items) |-> normSleepRow(rows.items[i])])


(* ------------------------ date filtering (247-268) --------------------- *)

\* The civil year, month and day of a day number counted from 1970-01-01,
\* as Date computes them for toISOString (proleptic Gregorian calendar).
CivilFromDays(z) ==
  LET zz  == z + 719468
      era == zz \div 146097
      doe == zz - era * 146097
      yoe == (doe - doe \div 1460 + doe \div 36524 - doe \div 146096) \div 365
      doy == doe - (365 * yoe + yoe \div 4 - yoe \div 100)
      mp  == (5 * doy + 2) \div 153
      dd  == doy - (153 * mp + 2) \div 5 + 1
      mm  == IF mp < 10 THEN mp + 3 ELSE mp - 9
      yy  == yoe + era * 400 + (IF mm <= 2 THEN 1 ELSE 0)
  IN  [y |-> yy, m |-> mm, d |-> dd]

\* toISOString().slice(0, 10) of an instant on UTC day number z: "YYYY-MM-DD".
IsoDay(z) ==
  LET c == CivilFromDays(z)
  IN  Pad4(c.y) \o <<45>> \o Pad2(c.m) \o <<45>> \o Pad2(c.d)

\* An instant as its UTC day number and UTC hour.
Instant(day, hour) == [day |-> day, hour |-> hour]

\* The browser's time zone as the two offsets from UTC, in hours, that the
\* filter meets (local = UTC + offset): the one in force now and the one in
\* force on the cutoff day, which differ when a daylight-saving change lies
\* between the two.
Zone(offset, earlier) == [offset |-> offset, earlier |-> earlier]

\* The local calendar day number and hour of an instant (getDate, getHours).
LocalDay(t, z)  == (t.day * 24 + t.hour + z.offset) \div 24
LocalHour(t, z) == (t.day * 24 + t.hour + z.offset) % 24

\* cutoff.setDate(cutoff.getDate() - n): the local calendar day moves back by
\* n, the local time of day stays; the new local time is turned back into an
\* instant with the offset in force on that day.
SetDateBack(t, z, n) ==
  LET h == (LocalDay(t, z) - n) * 24 + LocalHour(t, z) - z.earlier
  IN  Instant(h \div 24, h % 24)

\* The active window: the four pieces of range state of the component.
Window(useCustomRange, customStart, customEnd, rangeDays) ==
  [useCustomRange |-> useCustomRange, customStart |-> customStart,
   customEnd |-> customEnd, rangeDays |-> rangeDays]

\* inRange with the end of the range excluded (d >= e instead of d > e).
inRange_EndExcluded(dateStr, start, end) ==
  LET d == toDay(dateStr)
      s == toDay(start)
      e == toDay(end)
  IN  IF ~Truthy(d) THEN FALSE
      ELSE IF Truthy(s) /\ StrLess(StringOf(d), StringOf(s)) THEN FALSE
      ELSE ~(Truthy(e) /\ ~StrLess(StringOf(d), StringOf(e)))

\* const inRange = (dateStr, start, end) => { ... } (lines 247-254)
inRange(dateStr, start, end) ==
  LET d == toDay(dateStr)
      s == toDay(start)
      e == toDay(end)
  IN  IF ~Truthy(d) THEN FALSE
      ELSE IF Truthy(s) /\ StrLess(StringOf(d), StringOf(s)) THEN FALSE
      ELSE ~(Truthy(e) /\ StrLess(StringOf(e), StringOf(d)))

\* arr.filter(keep), keep being a function on the indices of arr.
RECURSIVE FilterSeq(_, _)
FilterSeq(arr, keep) ==
  IF Len(arr) = 0 THEN <<>>
  ELSE LET front == FilterSeq(SubSeq(arr, 1, Len(arr) - 1), keep)
       IN  IF keep[Len(arr)] THEN Append(front, arr[Len(arr)]) ELSE front

\* const filterByDays = useCallback((arr) => { ... }) (lines 256-268), for the
\* window w, evaluated at the instant t in the zone z.
filterByDays(arr, w, t, z) ==
  IF Len(arr) = 0 THEN arr
  ELSE IF w.useCustomRange /\ (Truthy(w.customStart) \/ Truthy(w.customEnd))
    THEN FilterSeq(arr, [i \in 1..Len(arr) |->
                           inRange(arr[i].date, w.customStart, w.customEnd)])
  ELSE IF ~IsFinite(w.rangeDays) THEN arr
  ELSE LET cutISO == IsoDay(SetDateBack(t, z, w.rangeDays.num).day)
       IN  FilterSeq(arr, [i \in 1..Len(arr) |->
                             ~StrLess(StringOf(toDay(arr[i].date)), cutISO)])

(* ------------------------------- state --------------------------------- *)

VARIABLES
  nRows,   \* the value handed to a normalizer
  nOut,    \* the call made and what it produced
  sArr,    \* the array handed to sortAsc
  sOnce,   \* sortAsc(sArr)
  sTwice,  \* sortAsc(sortAsc(sArr))
  sPc,     \* how far the sorting has got: "start", "once", "twice"
  phase,   \* useState("setup"): "setup", "updating" or "ready"
  loading, \* useState(false)
  steps, stress, exercise, sleep,   \* the four stored Series
  rangeDays,       \* useState(90): a number of days, or Infinity for "All"
  customStart,     \* useState(""): the "From" date input
  customEnd,       \* useState(""): the "to" date input
  useCustomRange,  \* useState(false)
  dSteps, dStress, dEx, dSleep,     \* the filtered views (useMemo)
  now,     \* the instant new Date() reads
  tz,      \* the browser's time zone
  db,      \* the version of the data the backend holds (0: none)
  tasks    \* the asynchronous handlers in flight

normVars   == <<nRows, nOut>>
sortVars   == <<sArr, sOnce, sTwice, sPc>>
seriesVars == <<steps, stress, exercise, sleep>>
windowVars == <<rangeDays, customStart, customEnd, useCustomRange>>
viewVars   == <<dSteps, dStress, dEx, dSleep>>
clockVars  == <<now, tz>>
appVars    == <<phase, loading, seriesVars, windowVars, viewVars, clockVars, db, tasks>>
vars == <<normVars, sortVars, appVars>>

(* ----------------- the normalizers applied to raw input ----------------- *)

\* Strings used as inputs.
Day0601  == <<50, 48, 50, 53, 45, 48, 54, 45, 48, 49>>     \* "2025-06-01"
Day0602  == <<50, 48, 50, 53, 45, 48, 54, 45, 48, 50>>     \* "2025-06-02"
Stamp0601 == Day0601 \o <<84, 49, 48, 58, 48, 48, 58, 48, 48, 90>>  \* "...T10:00:00Z"
StrAbc   == <<97, 98, 99>>                                  \* "abc"
StrUSDay == <<54, 47, 49, 47, 50, 48, 50, 53>>              \* "6/1/2025"

\* A finite double so large that 100 times it overflows (1e307 in the code).
Huge == Num((9 * MAX_VALUE) \div 10)

\* Raw values of a date field: missing, null, strings, a number, an array,
\* a plain object, a boolean.
RawDates ==
  {Undefined, Null, Str(<<>>), Str(Day0601), Str(Stamp0601), Str(StrUSDay),
   Num(123), Num(0), Arr(<<1, 2>>), Arr(<<>>), Obj, True}

\* Raw values of a numeric field.
RawSteps == {Undefined, Null, Num(0), Num(0 - 1), Num(1), Num(5000), Huge,
             NaN, PosInf, Str(StrAbc)}
RawGoals == {Undefined, Null, Num(0), Num(0 - 10000), Num(400), Num(10000), Num(1),
             NaN, NegInf, Str(StrAbc), True}
RawSecs  == {Undefined, Null, Num(0), Num(20), Num(600), Num(1800), Huge, Str(StrAbc)}
RawGoalS == {Undefined, Null, Num(0), Num(1), Num(6), Num(1500), Num(0 - 60), PosInf}
RawHours == {Undefined, Num(7), Rat(15, 2), NaN}

RawStepsRecords ==
  {[date |-> d, steps |-> s, step_goal |-> g] :
     d \in RawDates, s \in RawSteps, g \in RawGoals}

RawStressRecords ==
  {[date |-> d, stress_avg |-> v] : d \in RawDates, v \in RawSteps}

RawExerciseRecords ==
  {[date |-> d, moderate_activity_seconds |-> m, vigorous_activity_seconds |-> v,
    intensity_time_goal_seconds |-> g, distance |-> x, calories_active |-> x,
    calories_total |-> x] :
     d \in {Str(Day0601), Arr(<<1, 2>>)}, m \in RawSecs, v \in RawSecs, g \in RawGoalS,
     x \in {Undefined, Rat(15, 2), PosInf}}

RawSleepRecords ==
  {[date |-> d, total_sleep_hours |-> a, deep_sleep_hours |-> b,
    light_sleep_hours |-> c, rem_sleep_hours |-> b, awake_hours |-> c] :
     d \in {Str(Stamp0601), Null}, a \in RawHours, b \in RawHours, c \in RawHours}

\* A record without any field a normalizer reads.
RawOther == [note |-> Str(StrAbc)]

\* Records of two-element arrays: equal and different days.
RawPairItems ==
  {[date |-> d, steps |-> s, step_goal |-> Num(10000), stress_avg |-> s] :
     d \in {Str(Day0601), Str(Day0602), Null}, s \in {Num(1), Num(5000)}}

\* Values that are not arrays: undefined, null, "", "abc", 0, 5, {}.
NonArrays ==
  {RowsValue("undefined", FALSE, <<>>), RowsValue("null", FALSE, <<>>),
   RowsValue("string", FALSE, <<>>), RowsValue("string", TRUE, <<>>),
   RowsValue("number", FALSE, <<>>), RowsValue("number", TRUE, <<>>),
   RowsValue("object", TRUE, <<>>)}

NormInputs ==
  NonArrays
  \cup {RowsValue("array", TRUE, <<>>)}
  \cup {RowsValue("array", TRUE, <<r>>) :
          r \in RawStepsRecords \cup RawStressRecords \cup RawExerciseRecords
                \cup RawSleepRecords \cup {RawOther}}
  \cup {RowsValue("array", TRUE, <<a, b>>) : a \in RawPairItems, b \in RawPairItems}

NoCall == [fn |-> "none", threw |-> FALSE, value |-> <<>>]

\* The variables of the other specifications, at rest.
NormIdle == nRows = RowsValue("array", TRUE, <<>>) /\ nOut = NoCall
SortIdle == sArr = <<>> /\ sOnce = <<>> /\ sTwice = <<>> /\ sPc = "idle"
AppIdle ==
  /\ phase = "setup" /\ loading = FALSE
  /\ steps = <<>> /\ stress = <<>> /\ exercise = <<>> /\ sleep = <<>>
  /\ rangeDays = Num(90) /\ customStart = Str(<<>>) /\ customEnd = Str(<<>>)
  /\ useCustomRange = FALSE
  /\ dSteps = <<>> /\ dStress = <<>> /\ dEx = <<>> /\ dSleep = <<>>
  /\ now = Instant(0, 0) /\ tz = Zone(0, 0)
  /\ db = 0 /\ tasks = <<>>

Call(fn, o) == [fn |-> fn, threw |-> o.threw, value |-> o.value]

InitNorm ==
  /\ nRows \in NormInputs
  /\ nOut = NoCall
  /\ SortIdle
  /\ AppIdle

CallNormSteps ==
  /\ nOut.fn = "none"
  /\ \E o \in normSteps(nRows) : nOut' = Call("normSteps", o)
  /\ UNCHANGED <<nRows, sortVars, appVars>>

CallNormStress ==
  /\ nOut.fn = "none"
  /\ \E o \in normStress(nRows) : nOut' = Call("normStress", o)
  /\ UNCHANGED <<nRows, sortVars, appVars>>

CallNormExercise ==
  /\ nOut.fn = "none"
  /\ \E o \in normExercise(nRows) : nOut' = Call("normExercise", o)
  /\ UNCHANGED <<nRows, sortVars, appVars>>

CallNormSleep ==
  /\ nOut.fn = "none"
  /\ \E o \in normSleep(nRows) : nOut' = Call("normSleep", o)
  /\ UNCHANGED <<nRows, sortVars, appVars>>

NextNorm == CallNormSteps \/ CallNormStress \/ CallNormExercise \/ CallNormSleep

SpecNorm == InitNorm /\ [][NextNorm]_vars


(* ---------------------- sortAsc applied, and again ---------------------- *)

\* The longest array sorted.
MaxLen == 3

\* Normalized records to sort: three days (one empty), two payloads each.
SortRecords ==
  {[date |-> Str(d), stress_avg |-> Num(v)] :
     d \in {<<>>, Day0601, Day0602}, v \in {1, 2}}

SortInputs == UNION {[1..n -> SortRecords] : n \in 0..MaxLen}

InitSort ==
  /\ sArr \in SortInputs
  /\ sOnce = <<>>
  /\ sTwice = <<>>
  /\ sPc = "start"
  /\ NormIdle
  /\ AppIdle

SortOnce ==
  /\ sPc = "start"
  /\ sOnce' \in sortAsc(sArr)
  /\ sPc' = "once"
  /\ UNCHANGED <<sArr, sTwice, normVars, appVars>>

SortAgain ==
  /\ sPc = "once"
  /\ sTwice' \in sortAsc(sOnce)
  /\ sPc' = "twice"
  /\ UNCHANGED <<sArr, sOnce, normVars, appVars>>

NextSort == SortOnce \/ SortAgain

SpecSort == InitSort /\ [][NextSort]_vars

(* --------------- the range controls and the filtered views ------------- *)

\* The window the component's state holds.
CurrentWindow == Window(useCustomRange, customStart, customEnd, rangeDays)

\* The four useMemo views (lines 270-273) hold filterByDays of the four
\* series st, sr, ex, sl under the window w.
Rendered(st, sr, ex, sl, w) ==
  /\ dSteps'  = filterByDays(st, w, now, tz)
  /\ dStress' = filterByDays(sr, w, now, tz)
  /\ dEx'     = filterByDays(ex, w, now, tz)
  /\ dSleep'  = filterByDays(sl, w, now, tz)

\* A window change whose filter shortens the stored Series themselves
\* instead of producing views of them.
WindowBecomes_FilterInPlace(w) ==
  /\ useCustomRange' = w.useCustomRange
  /\ customStart' = w.customStart
  /\ customEnd' = w.customEnd
  /\ rangeDays' = w.rangeDays
  /\ Rendered(steps, stress, exercise, sleep, w)
  /\ steps' = dSteps' /\ stress' = dStress' /\ exercise' = dEx' /\ sleep' = dSleep'
  /\ UNCHANGED <<phase, loading, clockVars, db, tasks, normVars, sortVars>>

\* A change of the window alone: the views are recomputed, nothing else moves.
WindowBecomes(w) ==
  /\ useCustomRange' = w.useCustomRange
  /\ customStart' = w.customStart
  /\ customEnd' = w.customEnd
  /\ rangeDays' = w.rangeDays
  /\ Rendered(steps, stress, exercise, sleep, w)
  /\ UNCHANGED <<phase, loading, seriesVars, clockVars, db, tasks, normVars, sortVars>>

\* The presets of lines 384-387: 30d, 90d, 1y, All.
Presets == {Num(30), Num(90), Num(365), PosInf}

\* The values a date input can hold: empty, or a day.
Day0603 == <<50, 48, 50, 53, 45, 48, 54, 45, 48, 51>>     \* "2025-06-03"
Day0605 == <<50, 48, 50, 53, 45, 48, 54, 45, 48, 53>>     \* "2025-06-05"
DateInputs == {Str(<<>>), Str(Day0603), Str(Day0605)}

\* onClick of a preset: setRangeDays(n); setUseCustomRange(false)
ChoosePreset ==
  /\ phase = "ready"
  /\ \E n \in Presets : WindowBecomes(Window(FALSE, customStart, customEnd, n))

\* onChange of the "From" input: setCustomStart(e.target.value)
EditCustomStart ==
  /\ phase = "ready"
  /\ \E v \in DateInputs : WindowBecomes(Window(useCustomRange, v, customEnd, rangeDays))

\* onChange of the "to" input: setCustomEnd(e.target.value)
EditCustomEnd ==
  /\ phase = "ready"
  /\ \E v \in DateInputs : WindowBecomes(Window(useCustomRange, customStart, v, rangeDays))

\* Apply: setUseCustomRange(true), disabled while both inputs are empty
ApplyCustomRange ==
  /\ phase = "ready"
  /\ Truthy(customStart) \/ Truthy(customEnd)
  /\ WindowBecomes(Window(TRUE, customStart, customEnd, rangeDays))

\* Clear: setUseCustomRange(false); setCustomStart(""); setCustomEnd("")
ClearCustomRange ==
  /\ phase = "ready"
  /\ useCustomRange \/ Truthy(customStart) \/ Truthy(customEnd)
  /\ WindowBecomes(Window(FALSE, Str(<<>>), Str(<<>>), rangeDays))

\* Day number of 2025-06-01 and of 2025-07-01.
June1 == 20240
July1 == 20270

\* Raw rows of the backend for the days in ds (day numbers), value v.
RawRowsFor(ds, v) ==
  [i \in 1..Len(ds) |->
     [date |-> Str(IsoDay(ds[i])), steps |-> Num(v + i), step_goal |-> Num(10000),
      stress_avg |-> Num(v + i), total_sleep_hours |-> Num(7),
      moderate_activity_seconds |-> Num(60 * i),
      intensity_time_goal_seconds |-> Num(1500)]]

\* 2025-06-01 .. 2025-06-10, preceded by a row without a date.
JuneRows ==
  <<[steps |-> Num(1)]>> \o RawRowsFor([i \in 1..10 |-> June1 + i - 1], 100)

\* Rows dated 91, 90, 31, 30, 29 and 0 days before the local day today.
RecentRows(today) ==
  RawRowsFor(<<today - 91, today - 90, today - 31, today - 30, today - 29, today>>, 200)

\* The instants and zones the filter is evaluated at.
Hours == {0, 5, 12, 19, 23}
Zones == {Zone(0 - 10, 0 - 10), Zone(0 - 4, 0 - 5), Zone(0, 0), Zone(1, 0),
          Zone(2, 2), Zone(10, 10)}

\* The state after a fetch of the rows raw: the dashboard is shown.
InitFilter ==
  /\ now \in {Instant(July1, h) : h \in Hours}
  /\ tz \in Zones
  /\ \E raw \in {JuneRows, RecentRows(LocalDay(now, tz))} :
       /\ steps    \in {o.value : o \in normSteps(RowsValue("array", TRUE, raw))}
       /\ stress   \in {o.value : o \in normStress(RowsValue("array", TRUE, raw))}
       /\ exercise \in {o.value : o \in normExercise(RowsValue("array", TRUE, raw))}
       /\ sleep    \in {o.value : o \in normSleep(RowsValue("array", TRUE, raw))}
  /\ phase = "ready" /\ loading = FALSE
  /\ rangeDays = Num(90) /\ customStart = Str(<<>>) /\ customEnd = Str(<<>>)
  /\ useCustomRange = FALSE
  /\ dSteps  = filterByDays(steps, CurrentWindow, now, tz)
  /\ dStress = filterByDays(stress, CurrentWindow, now, tz)
  /\ dEx     = filterByDays(exercise, CurrentWindow, now, tz)
  /\ dSleep  = filterByDays(sleep, CurrentWindow, now, tz)
  /\ db = 1 /\ tasks = <<>>
  /\ NormIdle /\ SortIdle

NextFilter ==
  \/ ChoosePreset
  \/ EditCustomStart
  \/ EditCustomEnd
  \/ ApplyCustomRange
  \/ ClearCustomRange

SpecFilter == InitFilter /\ [][NextFilter]_vars

(* ------------- the handlers that talk to the backend (102-243) ---------- *)

\* This specification follows the asynchronous handlers.  The range controls
\* above neither read nor write anything these handlers touch except the
\* views, so the window stays at its initial value here.

MaxTasks   == 3    \* handlers started in one behaviour, the bootstrap included
MaxVersion == 2    \* versions of the data the backend comes to hold

\* The four endpoints fetchAll reads (lines 132-135).
Endpoints == {"steps", "stress", "exercise", "sleep"}

\* The body the backend answers a GET with while it holds version v: no rows
\* for version 0 (nothing pulled yet, or erased), else two days' rows, newest
\* first, whose values tell the versions apart.
Body(v) ==
  IF v = 0 THEN RowsValue("array", TRUE, <<>>)
  ELSE RowsValue("array", TRUE, RawRowsFor(<<June1 + 1, June1>>, 100 * v))

\* Array.isArray(x.data) ? x.data : []
ArrayOrEmpty(body) ==
  IF body.t = "array" THEN body ELSE RowsValue("array", TRUE, <<>>)

\* A response that has not been produced yet.
Pending == 0 - 1
NoneYet == [e \in Endpoints |-> Pending]

\* A handler in flight or finished: kind is the handler, pc the await it is
\* suspended at ("done" once it has returned), pass the number of its
\* fetchAll pass in the order the passes were triggered (0: none), over the
\* passes that were in flight when it was triggered (for an erase: when its
\* handler emptied the Series), got the version each
\* endpoint answered the pass with, seen the version the bootstrap's own GET
\* of /api/steps saw, and stamp the position of its write to the Series
\* among all such writes (0: it has not written).
Task(kind, pc) ==
  [kind |-> kind, pc |-> pc, pass |-> 0, over |-> {}, got |-> NoneYet,
   seen |-> Pending, stamp |-> 0]

\* The greatest of the numbers f[x], x in S (0 for none).
RECURSIVE MaxOver(_, _)
MaxOver(f, S) ==
  IF S = {} THEN 0
  ELSE LET x == CHOOSE y \in S : TRUE
           m == MaxOver(f, S \ {x})
       IN  IF f[x] > m THEN f[x] ELSE m

\* The number of passes triggered and of writes made so far.
PassesSoFar  == MaxOver([i \in DOMAIN tasks |-> tasks[i].pass], DOMAIN tasks)
WritesSoFar  == MaxOver([i \in DOMAIN tasks |-> tasks[i].stamp], DOMAIN tasks)

\* The passes in flight.
InFlight == {tasks[i].pass : i \in {j \in DOMAIN tasks : tasks[j].pc = "fetch"}}

\* The fields the component keeps besides the Series and the phase.
restVars == <<windowVars, clockVars, normVars, sortVars>>

\* The views follow the Series st, sr, ex, sl under the unchanged window.
SeriesBecome(st, sr, ex, sl) ==
  /\ steps' = st /\ stress' = sr /\ exercise' = ex /\ sleep' = sl
  /\ Rendered(st, sr, ex, sl, CurrentWindow)

SeriesStay == UNCHANGED <<seriesVars, viewVars>>

\* A click starts the handler kind, suspended at pc.
Started(kind, pc) ==
  /\ Len(tasks) < MaxTasks
  /\ tasks' = Append(tasks, Task(kind, pc))

\* The handler i moves to pc.
Moves(i, pc) == tasks' = [tasks EXCEPT ![i].pc = pc]

\* fetchAll up to its await (lines 129-136), called by the handler i:
\* setLoading(true) and the four GETs are sent.
fetchAllStarts(i) ==
  /\ loading' = TRUE
  /\ tasks' = [tasks EXCEPT ![i].pc = "fetch", ![i].pass = PassesSoFar + 1,
                            ![i].over = InFlight]

\* The four Series fetchAll stores for the responses got (lines 138-141).
Stored(got) ==
  {<<st.value, sr.value, ex.value, sl.value>> :
     st \in normSteps(ArrayOrEmpty(Body(got["steps"]))),
     sr \in normStress(ArrayOrEmpty(Body(got["stress"]))),
     ex \in normExercise(ArrayOrEmpty(Body(got["exercise"]))),
     sl \in normSleep(ArrayOrEmpty(Body(got["sleep"])))}

\* fetchAll from its await on when the four GETs have answered (lines
\* 138-144), in the handler i: the Series are stored, setLoading(false).
fetchAllReturns(i) ==
  /\ tasks[i].pc = "fetch"
  /\ \A e \in Endpoints : tasks[i].got[e] # Pending
  /\ \E s \in Stored(tasks[i].got) : SeriesBecome(s[1], s[2], s[3], s[4])
  /\ loading' = FALSE
  /\ tasks' = [tasks EXCEPT ![i].pc = "done", ![i].stamp = WritesSoFar + 1]

\* fetchAll when one of the GETs fails: Promise.all rejects, the finally
\* block runs setLoading(false) and the error reaches the caller.
fetchAllThrows(i) ==
  /\ tasks[i].pc = "fetch"
  /\ loading' = FALSE
  /\ tasks' = [tasks EXCEPT ![i].pc = "done", ![i].got = NoneYet]
  /\ SeriesStay

\* The handlers of the kind k.
Of(k) == {i \in DOMAIN tasks : tasks[i].kind = k}

\* The backend answers one GET of a pass with the data it holds.
ServeGet ==
  \E i \in DOMAIN tasks, e \in Endpoints :
    /\ tasks[i].pc = "fetch" /\ tasks[i].got[e] = Pending
    /\ tasks' = [tasks EXCEPT ![i].got[e] = db]
    /\ UNCHANGED <<phase, loading, db, restVars>> /\ SeriesStay

\* The backend runs POST /api/update: the pull leaves the data as they are
\* or brings a new version.
ServeUpdate ==
  \E i \in Of("initial") \cup Of("update") :
    /\ tasks[i].pc = "update"
    /\ db' = db \/ (db < MaxVersion /\ db' = db + 1)
    /\ Moves(i, "updated")
    /\ UNCHANGED <<phase, loading, restVars>> /\ SeriesStay

(* bootstrap: the effect run once after mounting (lines 102-125) *)

\* GET /api/config answers: the form is prefilled, GET /api/steps is sent.
BootstrapConfig ==
  \E i \in Of("bootstrap") :
    /\ tasks[i].pc = "config"
    /\ Moves(i, "steps")
    /\ UNCHANGED <<phase, loading, db, restVars>> /\ SeriesStay

\* The backend answers the bootstrap's GET /api/steps.
ServeSteps ==
  \E i \in Of("bootstrap") :
    /\ tasks[i].pc = "steps"
    /\ tasks' = [tasks EXCEPT ![i].pc = "stepsAnswered", ![i].seen = db]
    /\ UNCHANGED <<phase, loading, db, restVars>> /\ SeriesStay

\* Lines 116-119: with a non-empty array fetchAll is called, else the
\* effect ends and the setup form stays.
BootstrapSteps ==
  \E i \in Of("bootstrap") :
    /\ tasks[i].pc = "stepsAnswered"
    /\ LET st == Body(tasks[i].seen)
       IN  IF st.t = "array" /\ Len(st.items) > 0
           THEN fetchAllStarts(i)
           ELSE Moves(i, "done") /\ UNCHANGED loading
    /\ UNCHANGED <<phase, db, restVars>> /\ SeriesStay

\* Lines 117-118: await fetchAll() returns; setPhase("ready").
BootstrapFetched ==
  \E i \in Of("bootstrap") :
    /\ fetchAllReturns(i)
    /\ phase' = "ready"
    /\ UNCHANGED <<db, restVars>>

\* Lines 120-122: a request fails and the catch block ignores it.
BootstrapFails ==
  \E i \in Of("bootstrap") :
    /\ \/ /\ tasks[i].pc \in {"config", "steps", "stepsAnswered"}
          /\ Moves(i, "done") /\ UNCHANGED loading /\ SeriesStay
       \/ fetchAllThrows(i)
    /\ UNCHANGED <<phase, db, restVars>>

(* runInitialUpdate: "Save & Pull Data" of the setup form (lines 147-174) *)

\* The click: setPhase("updating"), POST /api/config is sent.  The button
\* needs a user name, which the visitor can type at any time.
RunInitialUpdate ==
  /\ phase = "setup"
  /\ phase' = "updating"
  /\ Started("initial", "config")
  /\ UNCHANGED <<loading, db, restVars>> /\ SeriesStay

\* POST /api/config answers; POST /api/ensure-folders is sent.
InitialConfigSaved ==
  \E i \in Of("initial") :
    /\ tasks[i].pc = "config"
    /\ Moves(i, "folders")
    /\ UNCHANGED <<phase, loading, db, restVars>> /\ SeriesStay

\* POST /api/ensure-folders answers; POST /api/update is sent.
InitialFoldersEnsured ==
  \E i \in Of("initial") :
    /\ tasks[i].pc = "folders"
    /\ Moves(i, "update")
    /\ UNCHANGED <<phase, loading, db, restVars>> /\ SeriesStay

\* POST /api/update answers; fetchAll is called.
InitialUpdated ==
  \E i \in Of("initial") :
    /\ tasks[i].pc = "updated"
    /\ fetchAllStarts(i)
    /\ UNCHANGED <<phase, db, restVars>> /\ SeriesStay

\* Lines 165-166: await fetchAll() returns; setPhase("ready").
InitialFetched ==
  \E i \in Of("initial") :
    /\ fetchAllReturns(i)
    /\ phase' = "ready"
    /\ UNCHANGED <<db, restVars>>

\* Lines 167-170: a request fails; after the alert, setPhase("setup").
InitialFails ==
  \E i \in Of("initial") :
    /\ \/ /\ tasks[i].pc \in {"config", "folders", "update", "updated"}
          /\ Moves(i, "done") /\ UNCHANGED loading /\ SeriesStay
       \/ fetchAllThrows(i)
    /\ phase' = "setup"
    /\ UNCHANGED <<db, restVars>>

(* updateData: "Update from Garmin" (lines 176-184) *)

\* The click, possible while the button is enabled: setLoading(true), POST
\* /api/update is sent.
UpdateData ==
  /\ phase = "ready" /\ ~loading
  /\ loading' = TRUE
  /\ Started("update", "update")
  /\ UNCHANGED <<phase, db, restVars>> /\ SeriesStay

\* POST /api/update answers; fetchAll is called.
UpdateUpdated ==
  \E i \in Of("update") :
    /\ tasks[i].pc = "updated"
    /\ fetchAllStarts(i)
    /\ UNCHANGED <<phase, db, restVars>> /\ SeriesStay

\* await fetchAll() returns; the finally block runs setLoading(false).
UpdateFetched ==
  \E i \in Of("update") :
    /\ fetchAllReturns(i)
    /\ UNCHANGED <<phase, db, restVars>>

\* A request fails; the finally block runs setLoading(false).
UpdateFails ==
  \E i \in Of("update") :
    /\ \/ /\ tasks[i].pc \in {"update", "updated"}
          /\ Moves(i, "done") /\ loading' = FALSE /\ SeriesStay
       \/ fetchAllThrows(i)
    /\ UNCHANGED <<phase, db, restVars>>

(* deleteData: "Erase HealthData" (lines 229-243) *)

\* The click, confirmed: setLoading(true), DELETE /api/erase is sent.
DeleteData ==
  /\ phase = "ready" /\ ~loading
  /\ loading' = TRUE
  /\ Started("erase", "erase")
  /\ UNCHANGED <<phase, db, restVars>> /\ SeriesStay

\* The backend erases the data.
ServeErase ==
  \E i \in Of("erase") :
    /\ tasks[i].pc = "erase"
    /\ db' = 0
    /\ Moves(i, "erased")
    /\ UNCHANGED <<phase, loading, restVars>> /\ SeriesStay

\* Lines 234-236 and 241: the four Series are emptied, setPhase("setup"),
\* setLoading(false).
Erased ==
  \E i \in Of("erase") :
    /\ tasks[i].pc = "erased"
    /\ SeriesBecome(<<>>, <<>>, <<>>, <<>>)
    /\ phase' = "setup"
    /\ loading' = FALSE
    /\ tasks' = [tasks EXCEPT ![i].pc = "done", ![i].stamp = WritesSoFar + 1,
                              ![i].over = InFlight]
    /\ UNCHANGED <<db, restVars>>

\* Lines 237-241: the request fails; setLoading(false).
EraseFails ==
  \E i \in Of("erase") :
    /\ tasks[i].pc \in {"erase", "erased"}
    /\ Moves(i, "done")
    /\ loading' = FALSE
    /\ UNCHANGED <<phase, db, restVars>> /\ SeriesStay

(* openSettings: "Settings" (lines 186-227) *)

\* The click: GET /api/config is sent.
OpenSettings ==
  /\ phase = "ready" /\ ~loading
  /\ Started("settings", "config")
  /\ UNCHANGED <<phase, loading, db, restVars>> /\ SeriesStay

\* GET /api/config answers and the prompt is shown: dismissed, the handler
\* returns through the finally block (setLoading(false)); answered, POST
\* /api/config is sent.
SettingsPrompt ==
  \E i \in Of("settings") :
    /\ tasks[i].pc = "config"
    /\ \/ Moves(i, "done") /\ loading' = FALSE
       \/ Moves(i, "post") /\ UNCHANGED loading
    /\ UNCHANGED <<phase, db, restVars>> /\ SeriesStay

\* POST /api/config answers or a request fails: after the alert the finally
\* block runs setLoading(false).
SettingsEnds ==
  \E i \in Of("settings") :
    /\ tasks[i].pc \in {"config", "post"}
    /\ Moves(i, "done")
    /\ loading' = FALSE
    /\ UNCHANGED <<phase, db, restVars>> /\ SeriesStay

\* The state after mounting: the setup form is shown, the bootstrap effect
\* has sent GET /api/config, and the backend holds no data or some.
Init ==
  /\ phase = "setup" /\ loading = FALSE
  /\ steps = <<>> /\ stress = <<>> /\ exercise = <<>> /\ sleep = <<>>
  /\ rangeDays = Num(90) /\ customStart = Str(<<>>) /\ customEnd = Str(<<>>)
  /\ useCustomRange = FALSE
  /\ dSteps = <<>> /\ dStress = <<>> /\ dEx = <<>> /\ dSleep = <<>>
  /\ now = Instant(July1, 12) /\ tz = Zone(0, 0)
  /\ db \in {0, 1}
  /\ tasks = <<Task("bootstrap", "config")>>
  /\ NormIdle /\ SortIdle

Next ==
  \/ ServeGet
  \/ ServeUpdate
  \/ BootstrapConfig
  \/ ServeSteps
  \/ BootstrapSteps
  \/ BootstrapFetched
  \/ BootstrapFails
  \/ RunInitialUpdate
  \/ InitialConfigSaved
  \/ InitialFoldersEnsured
  \/ InitialUpdated
  \/ InitialFetched
  \/ InitialFails
  \/ UpdateData
  \/ UpdateUpdated
  \/ UpdateFetched
  \/ UpdateFails
  \/ DeleteData
  \/ ServeErase
  \/ Erased
  \/ EraseFails
  \/ OpenSettings
  \/ SettingsPrompt
  \/ SettingsEnds

Spec == Init /\ [][Next]_vars

(* --------------------- claims about the normalizers --------------------- *)

\* A raw value that is a usable number: of type number and finite.  Any
\* other value (missing, null, NaN, an infinity, a string) is "absent".
Present(v) == v.t = "number"

\* The value a numeric field must carry for the raw value v.
Coerced(v) == IF Present(v) THEN v ELSE Null

\* round1 of the specification: to one decimal.
Round1(x) == ToFixed1(x)

\* normSteps has returned for the array nRows.
StepsReturned == nOut.fn = "normSteps" /\ ~nOut.threw /\ nRows.t = "array"

\* normExercise has returned for the array nRows.
ExerciseReturned == nOut.fn = "normExercise" /\ ~nOut.threw /\ nRows.t = "array"

\* The output record o carries the steps and the goal of the raw record r.
StepsOf(r, o) ==
  /\ o.steps = Coerced(Get(r, "steps"))
  /\ o.step_goal = Coerced(Get(r, "step_goal"))

\* steps_pct_goal of o is 0 when the goal is absent, zero or negative or the
\* steps are absent, and round1(100 * steps / step_goal) otherwise.
StepsPctRule(r, o) ==
  LET s == Get(r, "steps")
      g == Get(r, "step_goal")
  IN  IF ~Present(g) \/ g.num <= 0 \/ ~Present(s)
        THEN o.steps_pct_goal = Num(0)
        ELSE o.steps_pct_goal = Round1(Div(Mul(Num(100), s), g))

\* C1: for every raw Steps record, steps_pct_goal is a finite number; it is 0
\* whenever step_goal is absent, zero or negative, or steps is absent, and
\* round1(100 * steps / step_goal) in every other case.
C1_StepsPctGoalFinite ==
  StepsReturned =>
    \A i \in 1..Len(nRows.items) : \E k \in 1..Len(nOut.value) :
      /\ StepsOf(nRows.items[i], nOut.value[k])
      /\ StepsPctRule(nRows.items[i], nOut.value[k])
      /\ IsFinite(nOut.value[k].steps_pct_goal)

\* C1, the part the code keeps: the zero cases and the rounded ratio, with the
\* value a number (finite or, when 100 * steps / step_goal overflows, Infinity).
C1_StepsPctGoalRule ==
  StepsReturned =>
    \A i \in 1..Len(nRows.items) : \E k \in 1..Len(nOut.value) :
      /\ StepsOf(nRows.items[i], nOut.value[k])
      /\ StepsPctRule(nRows.items[i], nOut.value[k])
      /\ IsNumberType(nOut.value[k].steps_pct_goal)


\* The seconds of a raw value, an absent one counting as 0.
SecondsOr0(v) == IF Present(v) THEN v ELSE Num(0)

\* The minutes of a raw seconds value: round1(seconds / 60), absent if absent.
MinutesOf(v) == IF Present(v) THEN Round1(Div(v, Num(60))) ELSE Null

\* The sum of the two seconds values of the raw record r.
TotalSeconds(r) ==
  Add(SecondsOr0(Get(r, "moderate_activity_seconds")),
      SecondsOr0(Get(r, "vigorous_activity_seconds")))

\* The output record o carries the minutes of the raw record r.
ExerciseOf(r, o) ==
  /\ o.moderate_min = MinutesOf(Get(r, "moderate_activity_seconds"))
  /\ o.vigorous_min = MinutesOf(Get(r, "vigorous_activity_seconds"))

GoalMinOf(r) == MinutesOf(Get(r, "intensity_time_goal_seconds"))

C8_NonArrayYieldsEmpty ==
  (nOut.fn # "none" /\ nRows.t # "array") => (~nOut.threw /\ nOut.value = <<>>)

\* C9: every record a normalizer produces has a date that is a string and has
\* every numeric field either a finite number or the absence marker.
C9_RecordsWellTyped ==
  (nOut.fn # "none" /\ ~nOut.threw) =>
    \A k \in 1..Len(nOut.value) :
      /\ nOut.value[k].date.t = "string"
      /\ \A f \in DOMAIN nOut.value[k] \ {"date"} :
           nOut.value[k][f].t \in {"number", "null"}


(* -------------------------- claims about sortAsc ------------------------ *)

\* The day key of a normalized record, as a string.
KeyOf(r) == r.date.s

\* rec inserted into the ascending sequence seq behind every record whose key
\* is not greater: the step of a stable insertion sort.
RECURSIVE InsertStable(_, _)
InsertStable(seq, rec) ==
  IF Len(seq) = 0 THEN <<rec>>
  ELSE IF StrLess(KeyOf(rec), KeyOf(seq[Len(seq)]))
    THEN Append(InsertStable(SubSeq(seq, 1, Len(seq) - 1), rec), seq[Len(seq)])
    ELSE Append(seq, rec)

\* The stable ascending sort of seq by day key.
RECURSIVE StableSorted(_)
StableSorted(seq) ==
  IF Len(seq) = 0 THEN <<>>
  ELSE InsertStable(StableSorted(SubSeq(seq, 1, Len(seq) - 1)), seq[Len(seq)])

\* C6: sortAsc returns the records in ascending order of day key, and records
\* of equal day keep the relative order they had in the input.
C6_SortStable == sPc \in {"once", "twice"} => sOnce = StableSorted(sArr)

\* C6, the part the code keeps: the result is a rearrangement of the input in
\* which no record precedes one of a smaller day key.
C6_SortAscending ==
  sPc \in {"once", "twice"} =>
    /\ Len(sOnce) = Len(sArr)
    /\ \A r \in SortRecords :
         Cardinality({i \in 1..Len(sOnce) : sOnce[i] = r})
           = Cardinality({i \in 1..Len(sArr) : sArr[i] = r})
    /\ \A i, j \in 1..Len(sOnce) : i < j => ~StrLess(KeyOf(sOnce[j]), KeyOf(sOnce[i]))

\* C7: sortAsc(sortAsc(x)) equals sortAsc(x) element by element.
C7_SortIdempotent == sPc = "twice" => sTwice = sOnce


(* ------------------------ claims about the filter ----------------------- *)

\* The explicit range is active: Apply was pressed and an end of it is given.
ExplicitMode == useCustomRange /\ (customStart.s # <<>> \/ customEnd.s # <<>>)

\* The record r lies in the explicit range: its date is non-empty, not before
\* a given start and not after a given end, as strings.
InExplicitRange(r) ==
  /\ r.date.s # <<>>
  /\ customStart.s = <<>> \/ ~StrLess(r.date.s, customStart.s)
  /\ customEnd.s = <<>> \/ ~StrLess(customEnd.s, r.date.s)

\* C4: in explicit-range mode the filter keeps a record iff its date is
\* non-empty, not before the start (if any) and not after the end (if any).
C4_ExplicitRange ==
  (phase = "ready" /\ ExplicitMode) =>
    /\ dSteps  = SelectSeq(steps, InExplicitRange)
    /\ dStress = SelectSeq(stress, InExplicitRange)
    /\ dEx     = SelectSeq(exercise, InExplicitRange)
    /\ dSleep  = SelectSeq(sleep, InExplicitRange)

\* The scenario of the specification: of 2025-06-01 .. 2025-06-10 the window
\* 2025-06-03 .. 2025-06-05 keeps exactly 06-03, 06-04 and 06-05.
C4_Witness ==
  /\ ExplicitMode
  /\ customStart = Str(Day0603) /\ customEnd = Str(Day0605)
  /\ Len(steps) = 11
  /\ steps[2].date = Str(IsoDay(June1)) /\ steps[11].date = Str(IsoDay(June1 + 9))
  /\ [i \in 1..Len(dSteps) |-> dSteps[i].date.s]
       = <<Day0603, IsoDay(June1 + 3), Day0605>>

\* The day key of the wall-clock day n days before today.
DaysBeforeToday(n) == IsoDay(LocalDay(now, tz) - n)

\* The record r is dated on or after the day rangeDays days before today.
InRelativeRange(r) == ~StrLess(r.date.s, DaysBeforeToday(rangeDays.num))

\* C5: in relative mode with a finite N the filter keeps a record iff its
\* date >= the day key of today - N calendar days, whatever the instant and
\* the time zone (N = 30: the record of 30 days ago is kept, that of 31 days
\* ago dropped).
C5_RelativeCutoff ==
  (phase = "ready" /\ ~ExplicitMode /\ IsFinite(rangeDays)) =>
    /\ dSteps  = SelectSeq(steps, InRelativeRange)
    /\ dStress = SelectSeq(stress, InRelativeRange)
    /\ dEx     = SelectSeq(exercise, InRelativeRange)
    /\ dSleep  = SelectSeq(sleep, InRelativeRange)

\* The record r is dated on or after the UTC day of the instant rangeDays
\* days before now.
InRelativeRangeUTC(r) == ~StrLess(r.date.s, IsoDay(now.day - rangeDays.num))

\* C5, what the code computes in a zone whose offset did not change: the
\* cutoff is the UTC date of the instant N days ago, which is the local date
\* of N days ago only while UTC and the zone agree on the day.
C5_RelativeCutoffUTC ==
  (phase = "ready" /\ ~ExplicitMode /\ IsFinite(rangeDays) /\ tz.offset = tz.earlier) =>
    /\ dSteps  = SelectSeq(steps, InRelativeRangeUTC)
    /\ dStress = SelectSeq(stress, InRelativeRangeUTC)
    /\ dEx     = SelectSeq(exercise, InRelativeRangeUTC)
    /\ dSleep  = SelectSeq(sleep, InRelativeRangeUTC)

(* -------------------- claims about overlapping passes ------------------- *)

\* The handler i ran a pass that completed and stored its Series.
PassStored(i) == tasks[i].pass > 0 /\ tasks[i].stamp > 0

\* The stored Series are those of the pass of the handler i.
SeriesAreOf(i) == <<steps, stress, exercise, sleep>> \in Stored(tasks[i].got)

\* The pass of j was triggered while that of i was in flight, both have
\* completed, and nothing has written the Series since.
OverlappedAndComplete(i, j) ==
  /\ PassStored(i) /\ PassStored(j)
  /\ tasks[i].pass \in tasks[j].over
  /\ WritesSoFar \in {tasks[i].stamp, tasks[j].stamp}

\* C10: when a pass is triggered while an earlier one is in flight, then
\* after both complete the stored Series are those of the later-triggered
\* pass, in whatever order the responses arrive.
C10_LaterPassWins ==
  \A i, j \in DOMAIN tasks : OverlappedAndComplete(i, j) => SeriesAreOf(j)

\* C10, what the code does: the stored Series are those of the pass that
\* completed last, whichever was triggered first.
C10_LastCompletedWins ==
  \A i \in DOMAIN tasks :
    (PassStored(i) /\ tasks[i].stamp = WritesSoFar) => SeriesAreOf(i)

\* Two overlapping passes have both completed, the later-triggered one last.
C10_OverlapReached ==
  \E i, j \in DOMAIN tasks :
    OverlappedAndComplete(i, j) /\ tasks[j].stamp = WritesSoFar

(* --------------------- claims about the stored Series ------------------- *)

\* C11: every step that changes the active window (a preset, an edit of the
\* custom start or end, Apply, Clear), and with it recomputes the filtered
\* views, leaves the four stored Series as they were.
C11_WindowLeavesSeries ==
  [][(windowVars' # windowVars \/ viewVars' # viewVars) => UNCHANGED seriesVars]_vars

\* The 30d preset has been chosen and its view shows only a part of the six
\* records the Series still holds.
C11_Witness ==
  /\ phase = "ready" /\ ~useCustomRange /\ rangeDays = Num(30)
  /\ Len(steps) = 6 /\ Len(dSteps) \in 1..5
  /\ Len(stress) = 6 /\ Len(exercise) = 6 /\ Len(sleep) = 6

\* No record of seq stands before one of a smaller day key.
SortedByDay(seq) ==
  \A i, j \in 1..Len(seq) : i < j => ~DayGreater(seq[i].date, seq[j].date)

\* C12: in every reachable state each of the four stored Series is sorted
\* ascending by day key.
C12_SeriesSorted ==
  /\ SortedByDay(steps) /\ SortedByDay(stress)
  /\ SortedByDay(exercise) /\ SortedByDay(sleep)

\* A pass has stored the two days' records the backend sent newest first,
\* and the Series hold them oldest first.
C12_Witness ==
  /\ \E i \in DOMAIN tasks : PassStored(i) /\ tasks[i].stamp = WritesSoFar
  /\ Len(steps) = 2 /\ Len(stress) = 2 /\ Len(exercise) = 2 /\ Len(sleep) = 2
  /\ steps[1].date = Str(IsoDay(June1)) /\ steps[2].date = Str(IsoDay(June1 + 1))

(* -------------------------- claims about erase -------------------------- *)

\* The erase of the handler e has succeeded, and every pass that has stored
\* its Series since then was already in flight when it did: no fetch started
\* after the erase has completed yet.
ErasedAndNoLaterFetch(e) ==
  /\ tasks[e].kind = "erase" /\ tasks[e].stamp > 0
  /\ \A i \in DOMAIN tasks :
       (PassStored(i) /\ tasks[i].stamp > tasks[e].stamp)
         => tasks[i].pass \in tasks[e].over

SeriesEmpty == steps = <<>> /\ stress = <<>> /\ exercise = <<>> /\ sleep = <<>>

\* C13: after an erase has succeeded the four Series are empty and the
\* dashboard is not shown, until a fetch started after the erase completes;
\* a fetch in flight from before the erase neither repopulates the Series
\* nor moves the phase to "ready".
C13_EraseHolds ==
  \A e \in DOMAIN tasks :
    ErasedAndNoLaterFetch(e) => (SeriesEmpty /\ phase # "ready")

\* C13, what the code keeps: the Series are empty and the dashboard is not
\* shown for as long as the erase is the last write of the Series.
C13_EmptyWhileLastWrite ==
  \A e \in DOMAIN tasks :
    (tasks[e].kind = "erase" /\ tasks[e].stamp > 0 /\ tasks[e].stamp = WritesSoFar)
      => (SeriesEmpty /\ phase # "ready")

=============================================================================
